---------------------------- MODULE Spec2Model ----------------------------
(***************************************************************************)
(* A model of src/app.py: the PDF question-answering page.                 *)
(*                                                                         *)
(* Text is a sequence of one-character strings, so that it can be indexed, *)
(* sliced and measured as Python's str is.  Python's None is the value     *)
(* None below, which is no text (its only element is not a character).     *)
(***************************************************************************)
EXTENDS Integers, Sequences, FiniteSets, TLC

VARIABLES
    pc,                \* position of the run that the specification models
    text,              \* clean_text: the raw string handed to the normalizer
    cleaned,           \* clean_text(text)
    recleaned,         \* clean_text(clean_text(text))
    question,          \* find_relevant_context: its question argument
    full_text,         \* find_relevant_context: its full_text argument
    max_length,        \* find_relevant_context: its max_length argument
    scored_sentences,  \* find_relevant_context: the sorted (score, sentence) list
    context,           \* find_relevant_context: context when the loop is left
    excerpt,           \* find_relevant_context: the value returned
    pdf,               \* extract_text_from_pdf: the file being read
    tmp_file,          \* extract_text_from_pdf: the temporary file exists
    page_num,          \* extract_text_from_pdf: page_num + 1 of the page at hand
    acc_text,          \* extract_text_from_pdf: the local document_text
    warnings,          \* extract_text_from_pdf: pages reported by st.warning
    final_text,        \* extract_text_from_pdf: the value returned
    uploaded_file,     \* main: what st.file_uploader returns in the current run
    filename,          \* st.session_state.filename
    document_text,     \* st.session_state.document_text
    qa_model,          \* st.session_state.qa_model
    model_works,       \* environment: whether load_qa_model can build the pipeline
    asked,             \* main: question, what st.text_input returns in the run
    clicked,           \* main: what st.button("Get Answer") returns in the run
    model_context,     \* get_answer: the context handed to qa_pipeline
    shown_context,     \* main: the text of "Context used for answer:"
    shown_answer       \* main: what the answer area displays

cleanVars   == <<text, cleaned, recleaned>>
selectVars  == <<question, full_text, max_length, scored_sentences, context, excerpt>>
extractVars == <<pdf, tmp_file, page_num, acc_text, warnings, final_text>>
sessionVars == <<uploaded_file, filename, document_text, qa_model, model_works,
                 asked, clicked, model_context, shown_context, shown_answer>>
vars == <<pc, cleanVars, selectVars, extractVars, sessionVars>>

----------------------------------------------------------------------------
(* Python values and str primitives                                         *)

None == <<"None">>

\* bool(x) of a str-or-None value: None and "" are falsy
Truthy(s) == s /= None /\ s /= <<>>

LowerChars == <<"a","b","c","d","e","f","g","h","i","j","k","l","m",
                "n","o","p","q","r","s","t","u","v","w","x","y","z">>
UpperChars == <<"A","B","C","D","E","F","G","H","I","J","K","L","M",
                "N","O","P","Q","R","S","T","U","V","W","X","Y","Z">>
DigitChars == <<"0","1","2","3","4","5","6","7","8","9">>

Range(f) == {f[i] : i \in DOMAIN f}

LowerSet == Range(LowerChars)
UpperSet == Range(UpperChars)
DigitSet == Range(DigitChars)

IsLower(c)  == c \in LowerSet                   \* [a-z]
IsUpper(c)  == c \in UpperSet                   \* [A-Z]
IsLetter(c) == IsLower(c) \/ IsUpper(c)         \* [A-Za-z]
IsDigit(c)  == c \in DigitSet                   \* \d

\* \s of a str pattern, str.isspace, and the separators of str.strip and
\* str.split, among the characters up to U+00FF that this model writes:
\* tab, newline, carriage return, form feed and space, then U+000B,
\* U+001C to U+001F, U+0085 and U+00A0
SpaceSet ==
    {" ", "\t", "\n", "\r", "\f",
     "", "", "", "", "", "", " "}
NewlineSet  == {"\n"}                            \* \n
TerminalSet == {".", "!", "?"}                   \* [.!?]

IsSpace(c)  == c \in SpaceSet

\* the letters beyond ASCII, up to U+00FF, that str.lower() changes, and
\* what it changes them to
UpperLatinChars == <<"À","Á","Â","Ã","Ä","Å","Æ","Ç","È","É","Ê","Ë","Ì",
                    "Í","Î","Ï","Ð","Ñ","Ò","Ó","Ô","Õ","Ö","Ø","Ù","Ú",
                    "Û","Ü","Ý","Þ">>
LowerLatinChars == <<"à","á","â","ã","ä","å","æ","ç","è","é","ê","ë","ì",
                    "í","î","ï","ð","ñ","ò","ó","ô","õ","ö","ø","ù","ú",
                    "û","ü","ý","þ">>

\* str.lower(), one character
LowerChar(c) ==
    IF IsUpper(c)
    THEN LowerChars[CHOOSE i \in DOMAIN UpperChars : UpperChars[i] = c]
    ELSE IF c \in Range(UpperLatinChars)
    THEN LowerLatinChars[CHOOSE i \in DOMAIN UpperLatinChars :
                             UpperLatinChars[i] = c]
    ELSE c

\* str.lower(): every character lower-cased, as a sequence
Lower(s) == SubSeq([i \in 1..Len(s) |-> LowerChar(s[i])], 1, Len(s))

\* s[i:] as a 1-based slice
From(s, i) == SubSeq(s, i, Len(s))

\* the least index j >= i with s[j] in class, or Len(s)+1 when there is none
FirstAt(s, i, class) ==
    IF \E j \in i..Len(s) : s[j] \in class
    THEN CHOOSE j \in i..Len(s) :
             s[j] \in class /\ \A k \in i..(j-1) : s[k] \notin class
    ELSE Len(s) + 1

\* the least index j >= i with s[j] not in class, or Len(s)+1 when there is none
FirstNotAt(s, i, class) ==
    IF \E j \in i..Len(s) : s[j] \notin class
    THEN CHOOSE j \in i..Len(s) :
             s[j] \notin class /\ \A k \in i..(j-1) : s[k] \in class
    ELSE Len(s) + 1

\* str.strip()
Strip(s) ==
    LET a == FirstNotAt(s, 1, SpaceSet)
    IN  IF a > Len(s) THEN <<>>
        ELSE LET b == CHOOSE j \in a..Len(s) :
                          ~IsSpace(s[j]) /\ \A k \in (j+1)..Len(s) : IsSpace(s[k])
             IN  SubSeq(s, a, b)

\* str.split() with no argument: the maximal runs of non-whitespace, from index i
RECURSIVE SplitWords(_, _)
SplitWords(s, i) ==
    LET a == FirstNotAt(s, i, SpaceSet)
    IN  IF a > Len(s) THEN <<>>
        ELSE LET b == FirstAt(s, a, SpaceSet)
             IN  <<SubSeq(s, a, b - 1)>> \o SplitWords(s, b)

\* ' '.join(words)
RECURSIVE JoinSpace(_)
JoinSpace(words) ==
    IF words = <<>> THEN <<>>
    ELSE IF Len(words) = 1 THEN words[1]
    ELSE words[1] \o <<" ">> \o JoinSpace(Tail(words))

\* whether word occurs in s at index j
OccursAt(s, word, j) ==
    j + Len(word) - 1 <= Len(s) /\ SubSeq(s, j, j + Len(word) - 1) = word

\* s[i:].count(word) for a non-empty word: occurrences found left to right,
\* each search resuming after the end of the previous occurrence
RECURSIVE CountFrom(_, _, _)
CountFrom(s, word, i) ==
    IF \E j \in i..Len(s) : OccursAt(s, word, j)
    THEN LET m == CHOOSE j \in i..Len(s) :
                      OccursAt(s, word, j) /\ \A k \in i..(j-1) : ~OccursAt(s, word, k)
         IN  1 + CountFrom(s, word, m + Len(word))
    ELSE 0

\* s.count(word)
Count(s, word) == CountFrom(s, word, 1)

----------------------------------------------------------------------------
(* clean_text: the regular-expression substitutions, each applied as       *)
(* re.sub does: leftmost match first, the scan resuming after the match.   *)

\* re.sub(r'\n+', ' ', s)
RECURSIVE SubNewlines(_, _)
SubNewlines(s, i) ==
    LET m == FirstAt(s, i, NewlineSet)
    IN  IF m > Len(s) THEN From(s, i)
        ELSE SubSeq(s, i, m - 1) \o <<" ">>
                 \o SubNewlines(s, FirstNotAt(s, m, NewlineSet))

\* re.sub(r'\s+', ' ', s)
RECURSIVE SubSpaces(_, _)
SubSpaces(s, i) ==
    LET m == FirstAt(s, i, SpaceSet)
    IN  IF m > Len(s) THEN From(s, i)
        ELSE SubSeq(s, i, m - 1) \o <<" ">>
                 \o SubSpaces(s, FirstNotAt(s, m, SpaceSet))

\* a match of ([a-z])([A-Z]) starts at j
CamelAt(s, j) == j < Len(s) /\ IsLower(s[j]) /\ IsUpper(s[j + 1])

\* a wrong character class in the camelCase pattern: ([A-Za-z])([A-Z])
RECURSIVE SubCamelAnyLetter(_, _)
SubCamelAnyLetter(s, i) ==
    IF \E j \in i..Len(s) : j < Len(s) /\ IsLetter(s[j]) /\ IsUpper(s[j + 1])
    THEN LET m == CHOOSE j \in i..Len(s) :
                      /\ j < Len(s) /\ IsLetter(s[j]) /\ IsUpper(s[j + 1])
                      /\ \A k \in i..(j-1) : ~(IsLetter(s[k]) /\ IsUpper(s[k + 1]))
         IN  SubSeq(s, i, m) \o <<" ">> \o <<s[m + 1]>> \o SubCamelAnyLetter(s, m + 2)
    ELSE From(s, i)

\* re.sub(r'([a-z])([A-Z])', r'\1 \2', s)
RECURSIVE SubCamel(_, _)
SubCamel(s, i) ==
    IF \E j \in i..Len(s) : CamelAt(s, j)
    THEN LET m == CHOOSE j \in i..Len(s) :
                      CamelAt(s, j) /\ \A k \in i..(j-1) : ~CamelAt(s, k)
         IN  SubSeq(s, i, m) \o <<" ">> \o <<s[m + 1]>> \o SubCamel(s, m + 2)
    ELSE From(s, i)

\* a match of (\d+)([A-Za-z]) starts at j: the greedy run of digits from j
\* is followed by a letter (giving digits back cannot help: a digit is no letter)
DigitLetterAt(s, j) ==
    /\ j <= Len(s) /\ IsDigit(s[j])
    /\ LET e == FirstNotAt(s, j, DigitSet) IN e <= Len(s) /\ IsLetter(s[e])

\* re.sub(r'(\d+)([A-Za-z])', r'\1 \2', s)
RECURSIVE SubDigitLetter(_, _)
SubDigitLetter(s, i) ==
    IF \E j \in i..Len(s) : DigitLetterAt(s, j)
    THEN LET m == CHOOSE j \in i..Len(s) :
                      DigitLetterAt(s, j) /\ \A k \in i..(j-1) : ~DigitLetterAt(s, k)
             e == FirstNotAt(s, m, DigitSet)
         IN  SubSeq(s, i, e - 1) \o <<" ">> \o <<s[e]>> \o SubDigitLetter(s, e + 1)
    ELSE From(s, i)

\* a match of ([A-Za-z])(\d+) starts at j
LetterDigitAt(s, j) == j < Len(s) /\ IsLetter(s[j]) /\ IsDigit(s[j + 1])

\* re.sub(r'([A-Za-z])(\d+)', r'\1 \2', s)
RECURSIVE SubLetterDigit(_, _)
SubLetterDigit(s, i) ==
    IF \E j \in i..Len(s) : LetterDigitAt(s, j)
    THEN LET m == CHOOSE j \in i..Len(s) :
                      LetterDigitAt(s, j) /\ \A k \in i..(j-1) : ~LetterDigitAt(s, k)
             e == FirstNotAt(s, m + 1, DigitSet)
         IN  SubSeq(s, i, m) \o <<" ">> \o SubSeq(s, m + 1, e - 1)
                 \o SubLetterDigit(s, e)
    ELSE From(s, i)

\* clean_text(text)
clean_text(s) ==
    IF ~Truthy(s) THEN <<>>
    ELSE LET t1 == SubNewlines(s, 1)
             t2 == SubSpaces(t1, 1)
             t3 == SubCamel(t2, 1)
             t4 == SubDigitLetter(t3, 1)
             t5 == SubLetterDigit(t4, 1)
             t6 == JoinSpace(SplitWords(t5, 1))
         IN  Strip(t6)

----------------------------------------------------------------------------
(* find_relevant_context                                                     *)

\* re.split(r'[.!?]+', s), from index i: the pieces between the maximal runs
\* of terminal punctuation, an empty piece where s starts or ends with a run
RECURSIVE SplitSentences(_, _)
SplitSentences(s, i) ==
    LET m == FirstAt(s, i, TerminalSet)
    IN  IF m > Len(s) THEN <<From(s, i)>>
        ELSE <<SubSeq(s, i, m - 1)>>
                 \o SplitSentences(s, FirstNotAt(s, m, TerminalSet))

\* the inner loop: for word in question_words: if len(word) > 2: score += ...
RECURSIVE ScoreFrom(_, _, _)
ScoreFrom(sentence_lower, question_words, w) ==
    IF w > Len(question_words) THEN 0
    ELSE (IF Len(question_words[w]) > 2
          THEN Count(sentence_lower, question_words[w])
          ELSE 0)
         + ScoreFrom(sentence_lower, question_words, w + 1)

\* the score with the sentence left in its original case
SentenceScoreCaseSensitive(sentence, question_words) ==
    ScoreFrom(sentence, question_words, 1)

\* the score of one sentence of the split: sentence_lower = sentence.lower(),
\* then the inner loop
SentenceScore(sentence, question_words) ==
    ScoreFrom(Lower(sentence), question_words, 1)

\* the scoring loop: sentences whose stripped length is under 10 are skipped,
\* the others recorded as (score, sentence.strip())
RECURSIVE ScoreSentences(_, _, _)
ScoreSentences(sentences, question_words, k) ==
    IF k > Len(sentences) THEN <<>>
    ELSE IF Len(Strip(sentences[k])) < 10
         THEN ScoreSentences(sentences, question_words, k + 1)
         ELSE <<[score    |-> SentenceScore(sentences[k], question_words),
                 sentence |-> Strip(sentences[k])]>>
                  \o ScoreSentences(sentences, question_words, k + 1)

\* the list without its k-th element
Without(list, k) == SubSeq(list, 1, k - 1) \o SubSeq(list, k + 1, Len(list))

\* a sort that forgets reverse=True: ascending by score, stable
RECURSIVE SortAscending(_)
SortAscending(list) ==
    IF list = <<>> THEN <<>>
    ELSE LET k == CHOOSE j \in 1..Len(list) :
                      /\ \A h \in 1..Len(list) : list[h].score >= list[j].score
                      /\ \A h \in 1..(j-1) : list[h].score > list[j].score
         IN  <<list[k]>> \o SortAscending(Without(list, k))

\* scored_sentences.sort(key=lambda x: x[0], reverse=True): descending by
\* score, elements of equal score kept in their original order
RECURSIVE SortByScore(_)
SortByScore(list) ==
    IF list = <<>> THEN <<>>
    ELSE LET k == CHOOSE j \in 1..Len(list) :
                      /\ \A h \in 1..Len(list) : list[h].score <= list[j].score
                      /\ \A h \in 1..(j-1) : list[h].score < list[j].score
         IN  <<list[k]>> \o SortByScore(Without(list, k))

\* the assembly loop with continue in place of break
RECURSIVE AssembleSkipOverflow(_, _, _, _)
AssembleSkipOverflow(scored, k, ctx, budget) ==
    IF k > Len(scored) THEN ctx
    ELSE IF Len(ctx) + Len(scored[k].sentence) > budget
         THEN AssembleSkipOverflow(scored, k + 1, ctx, budget)
    ELSE AssembleSkipOverflow(scored, k + 1,
                  IF scored[k].score > 0
                  THEN ctx \o scored[k].sentence \o <<".", " ">>
                  ELSE ctx,
                  budget)

\* the assembly loop, from the k-th scored sentence with ctx built so far:
\* break at the first overflow, append only sentences of positive score
RECURSIVE Assemble(_, _, _, _)
Assemble(scored, k, ctx, budget) ==
    IF k > Len(scored) THEN ctx
    ELSE IF Len(ctx) + Len(scored[k].sentence) > budget THEN ctx
    ELSE Assemble(scored, k + 1,
                  IF scored[k].score > 0
                  THEN ctx \o scored[k].sentence \o <<".", " ">>
                  ELSE ctx,
                  budget)

\* question.lower().split()
QuestionWords(q) == SplitWords(Lower(q), 1)

\* scored_sentences after the sort
ScoredSentences(q, d) ==
    SortByScore(ScoreSentences(SplitSentences(d, 1), QuestionWords(q), 1))

\* context when the assembly loop is left
LoopContext(q, d, budget) == Assemble(ScoredSentences(q, d), 1, <<>>, budget)

\* the early return with < in place of <=
ReturnsWholeStrict(d, budget) == ~Truthy(d) \/ Len(d) < budget

\* if not full_text or len(full_text) <= max_length: return full_text
ReturnsWhole(d, budget) == ~Truthy(d) \/ Len(d) <= budget

\* the fallback with the final strip() left out
FallbackUnstripped(ctx, d, budget) ==
    IF Strip(ctx) = <<>> THEN SubSeq(d, 1, budget) ELSE Strip(ctx)

\* lines 122-126: the fallback to full_text[:max_length] (max_length >= 0)
\* and the final strip()
FallbackAndStrip(ctx, d, budget) ==
    Strip(IF Strip(ctx) = <<>> THEN SubSeq(d, 1, budget) ELSE ctx)

\* find_relevant_context(question, full_text, max_length), for max_length >= 0
find_relevant_context(q, d, budget) ==
    IF ReturnsWhole(d, budget) THEN d
    ELSE FallbackAndStrip(LoopContext(q, d, budget), d, budget)

----------------------------------------------------------------------------
(* extract_text_from_pdf                                                     *)

\* what page.extract_text() does on a page that cannot be extracted
Raises == <<"raise">>

\* An uploaded file: its name, whether PdfReader can open it, and for each
\* page what page.extract_text() gives: a string, or Raises.
NoFile == [name |-> None, readable |-> FALSE, pages |-> <<>>]

\* the page loop leaving at the first page that raises (break, not continue)
RECURSIVE ExtractPagesStopAtFailure(_, _, _)
ExtractPagesStopAtFailure(pages, k, acc) ==
    IF k > Len(pages) THEN acc
    ELSE IF pages[k] = Raises THEN acc
    ELSE IF Truthy(pages[k])
         THEN ExtractPagesStopAtFailure(pages, k + 1,
                                        acc \o clean_text(pages[k]) \o <<" ">>)
         ELSE ExtractPagesStopAtFailure(pages, k + 1, acc)

\* the page loop from page k with document_text = acc: a page that raises is
\* warned about and skipped, an empty page adds nothing, any other page adds
\* its cleaned text and a space
RECURSIVE ExtractPages(_, _, _)
ExtractPages(pages, k, acc) ==
    IF k > Len(pages) THEN acc
    ELSE IF pages[k] = Raises THEN ExtractPages(pages, k + 1, acc)
    ELSE IF Truthy(pages[k])
         THEN ExtractPages(pages, k + 1, acc \o clean_text(pages[k]) \o <<" ">>)
         ELSE ExtractPages(pages, k + 1, acc)

\* the page numbers (page_num + 1) passed to st.warning, in order
RECURSIVE WarnedFrom(_, _)
WarnedFrom(pages, k) ==
    IF k > Len(pages) THEN <<>>
    ELSE (IF pages[k] = Raises THEN <<k>> ELSE <<>>) \o WarnedFrom(pages, k + 1)

\* the pages warned about by one call
WarnedPages(pages) == WarnedFrom(pages, 1)

\* extract_text_from_pdf(uploaded_file): None when the file cannot be read
\* (the outer except), else the cleaned concatenation of the pages
extract_text_from_pdf(file) ==
    IF ~file.readable THEN None
    ELSE clean_text(ExtractPages(file.pages, 1, <<>>))

----------------------------------------------------------------------------
(* load_qa_model, get_answer and the confidence display                      *)

\* the question-answering pipeline object
Pipeline == <<"pipeline">>

\* load_qa_model(): the pipeline, or None when building it raises
load_qa_model(works) == IF works THEN Pipeline ELSE None

\* max_length=1500 in get_answer's call of find_relevant_context
AnswerContextLength == 1500

\* max_length=2000, the default of find_relevant_context
DefaultContextLength == 2000

\* relevant_context in get_answer
AnswerContext(q, doc) == find_relevant_context(q, doc, AnswerContextLength)

\* the context main computes for the "View relevant text section" expander
DisplayedContext(q, doc) == find_relevant_context(q, doc, DefaultContextLength)

\* get_answer returning None, and qa_pipeline raising inside it
NoResult == [ok |-> FALSE, answer |-> <<>>, score |-> 0]

\* get_answer(question, context, qa_pipeline): the context it hands to the
\* pipeline (None when the pipeline is not called) and the results it may
\* return, outcomes being what the pipeline may do when called: raise
\* (ok = FALSE, returned as None) or return an answer with a score
get_answer(q, doc, pipeline, outcomes) ==
    IF pipeline = None THEN [passed |-> None, results |-> {NoResult}]
    ELSE LET relevant_context == AnswerContext(q, doc)
         IN  IF ~Truthy(relevant_context)
             THEN [passed |-> None, results |-> {NoResult}]
             ELSE [passed  |-> relevant_context,
                   results |-> {IF r.ok THEN r ELSE NoResult : r \in outcomes}]

\* confidence = round(score * 100, 1) against the thresholds 70 and 40
ConfidenceTier(score) ==
    IF score >= 700 THEN "high"
    ELSE IF score >= 400 THEN "medium"
    ELSE "low"

----------------------------------------------------------------------------
(* The normalizer on its own: clean_text applied to a raw string, then to    *)
(* its own output.                                                           *)

MaxCleanLen == 5

CleanAlphabet == {"a", "B", "1", " ", "\n", "\f", "."}

\* every string over alphabet of length at most n
Strings(alphabet, n) == UNION {[1..k -> alphabet] : k \in 0..n}

SelectIdle ==
    /\ question = <<>> /\ full_text = <<>> /\ max_length = 0
    /\ scored_sentences = <<>> /\ context = <<>> /\ excerpt = None

CleanIdle == text = <<>> /\ cleaned = None /\ recleaned = None

ExtractIdle ==
    /\ pdf = NoFile /\ tmp_file = FALSE /\ page_num = 0
    /\ acc_text = <<>> /\ warnings = <<>> /\ final_text = None

SessionIdle ==
    /\ uploaded_file = NoFile /\ filename = None /\ document_text = None
    /\ qa_model = None /\ model_works = TRUE /\ asked = <<>> /\ clicked = FALSE
    /\ model_context = None /\ shown_context = None /\ shown_answer = "blank"

InitClean ==
    /\ pc = "raw"
    /\ text \in Strings(CleanAlphabet, MaxCleanLen) \cup {None}
    /\ cleaned = None /\ recleaned = None
    /\ SelectIdle /\ ExtractIdle /\ SessionIdle

\* cleaned = clean_text(text)
Normalize ==
    /\ pc = "raw"
    /\ cleaned' = clean_text(text)
    /\ pc' = "cleaned"
    /\ UNCHANGED <<text, recleaned, selectVars, extractVars, sessionVars>>

\* recleaned = clean_text(cleaned)
Renormalize ==
    /\ pc = "cleaned"
    /\ recleaned' = clean_text(cleaned)
    /\ pc' = "recleaned"
    /\ UNCHANGED <<text, cleaned, selectVars, extractVars, sessionVars>>

NextClean == Normalize \/ Renormalize

SpecClean == InitClean /\ [][NextClean]_vars

----------------------------------------------------------------------------
(* The context selector on its own: one call of find_relevant_context.      *)

MaxBlocks == 2
MaxBudget == 40

\* 'the cat sat.'
KCatSat ==
    <<"t","h","e"," ","c","a","t"," ","s","a","t",".">>
\* ' A Cat, a cat! the cat sat.'
KTwoCats ==
    <<" ","A"," ","C","a","t",","," ","a"," ","c","a","t","!"," ","t","h",
      "e"," ","c","a","t"," ","s","a","t",".">>
\* ' no dogs?!'
KNoDogs ==
    <<" ","n","o"," ","d","o","g","s","?","!">>
\* ' birds sing on'
KBirds ==
    <<" ","b","i","r","d","s"," ","s","i","n","g"," ","o","n">>
\* ' my cat ran.'
KMyCat ==
    <<" ","m","y"," ","c","a","t"," ","r","a","n",".">>

Blocks == <<KCatSat, KTwoCats, KNoDogs, KBirds, KMyCat>>

\* the documents made of at most n blocks
RECURSIVE DocumentsOf(_)
DocumentsOf(n) ==
    IF n = 0 THEN {<<>>}
    ELSE DocumentsOf(n - 1)
             \cup {d \o Blocks[b] : d \in DocumentsOf(n - 1), b \in DOMAIN Blocks}

Documents == DocumentsOf(MaxBlocks)

\* 'cat'
QCat ==
    <<"c","a","t">>
\* 'the CAT dog'
QTheCatDog ==
    <<"t","h","e"," ","C","A","T"," ","d","o","g">>
\* 'is it'
QIsIt ==
    <<"i","s"," ","i","t">>
\* 'Cat? an'
QCatMark ==
    <<"C","a","t","?"," ","a","n">>

Questions == {QCat, QTheCatDog, QIsIt, QCatMark}

\* 'The office is open 9 AM to 5 PM. Employees get 10 paid holidays. Overtime pay is 1.5x regular rate.'
ScenarioDocument ==
    <<"T","h","e"," ","o","f","f","i","c","e"," ","i","s"," ","o","p","e",
      "n"," ","9"," ","A","M"," ","t","o"," ","5"," ","P","M","."," ","E",
      "m","p","l","o","y","e","e","s"," ","g","e","t"," ","1","0"," ","p",
      "a","i","d"," ","h","o","l","i","d","a","y","s","."," ","O","v","e",
      "r","t","i","m","e"," ","p","a","y"," ","i","s"," ","1",".","5","x",
      " ","r","e","g","u","l","a","r"," ","r","a","t","e",".">>
\* 'What are the paid holidays?'
ScenarioQuestion ==
    <<"W","h","a","t"," ","a","r","e"," ","t","h","e"," ","p","a","i","d",
      " ","h","o","l","i","d","a","y","s","?">>
\* 'The office is open 9 AM to 5 PM'
ScenarioSentenceOne ==
    <<"T","h","e"," ","o","f","f","i","c","e"," ","i","s"," ","o","p","e",
      "n"," ","9"," ","A","M"," ","t","o"," ","5"," ","P","M">>
\* 'Employees get 10 paid holidays'
ScenarioSentenceTwo ==
    <<"E","m","p","l","o","y","e","e","s"," ","g","e","t"," ","1","0"," ",
      "p","a","i","d"," ","h","o","l","i","d","a","y","s">>
\* 'Employees get 10 paid holidays.'
ScenarioClaimedExcerpt ==
    <<"E","m","p","l","o","y","e","e","s"," ","g","e","t"," ","1","0"," ",
      "p","a","i","d"," ","h","o","l","i","d","a","y","s",".">>

\* the scenario of the holidays document, with its budget
Scenario == [q |-> ScenarioQuestion, d |-> ScenarioDocument, budget |-> 200]

SelectInputs ==
    {[q |-> q, d |-> d, budget |-> b] :
        q \in Questions, d \in Documents, b \in 0..MaxBudget}
    \cup {Scenario}
    \cup {[q |-> Scenario.q, d |-> Scenario.d, budget |-> b] : b \in 0..MaxBudget}

InitSelect ==
    /\ pc = "call"
    /\ \E in \in SelectInputs :
           question = in.q /\ full_text = in.d /\ max_length = in.budget
    /\ scored_sentences = <<>> /\ context = <<>> /\ excerpt = None
    /\ CleanIdle /\ ExtractIdle /\ SessionIdle

\* excerpt = find_relevant_context(question, full_text, max_length), with the
\* sorted list and the loop's context recorded when the call gets that far
Select ==
    /\ pc = "call"
    /\ excerpt' = find_relevant_context(question, full_text, max_length)
    /\ IF ReturnsWhole(full_text, max_length)
       THEN /\ pc' = "returned_whole"
            /\ UNCHANGED <<scored_sentences, context>>
       ELSE /\ scored_sentences' = ScoredSentences(question, full_text)
            /\ context' = LoopContext(question, full_text, max_length)
            /\ pc' = IF Strip(context') = <<>>
                     THEN "returned_prefix" ELSE "returned_context"
    /\ UNCHANGED <<question, full_text, max_length,
                   cleanVars, extractVars, sessionVars>>

NextSelect == Select

SpecSelect == InitSelect /\ [][NextSelect]_vars

----------------------------------------------------------------------------
(* Properties of the normalizer (SpecClean)                                  *)

\* C4: clean_text is idempotent: cleaning already-cleaned text changes nothing.
C4_CleanTextIdempotent ==
    pc = "recleaned" => recleaned = cleaned

\* a raw string that the first pass really changes (whitespace collapsed and
\* trimmed, spaces inserted at the case and digit boundaries), cleaned twice
C4_Witness ==
    /\ pc = "recleaned"
    /\ text = <<"\n", "a", "B", "1">>
    /\ cleaned = <<"a", " ", "B", " ", "1">>
    /\ recleaned = cleaned

----------------------------------------------------------------------------
(* Properties of the context selector (SpecSelect)                           *)

Returned == pc \in {"returned_whole", "returned_prefix", "returned_context"}

\* C1: the returned excerpt is never longer than the budget.
C1_ExcerptWithinBudget ==
    Returned => Len(excerpt) <= max_length

\* C2: a document no longer than the budget is returned unchanged.
C2_ShortDocumentUnchanged ==
    (Returned /\ Len(full_text) <= max_length) => excerpt = full_text

\* a document exactly as long as the budget, with leading whitespace and
\* terminal punctuation that any processing would have altered
C2_Witness ==
    /\ pc = "returned_whole"
    /\ full_text = KNoDogs \o KMyCat
    /\ question = QCat
    /\ Len(full_text) = max_length
    /\ excerpt = full_text

\* no token of the question longer than 2 occurs in the document, ignoring case
NoTokenOccurs(q, d) ==
    LET words == QuestionWords(q)
        lowered == Lower(d)
    IN  \A w \in 1..Len(words) :
            Len(words[w]) > 2 =>
                ~\E j \in 1..Len(d) : OccursAt(lowered, words[w], j)

\* C3 as stated: with no question token in a document longer than the budget,
\* the result is exactly the first max_length characters of the document.
C3_FallbackIsExactPrefix ==
    (Returned /\ Len(full_text) > max_length /\ NoTokenOccurs(question, full_text))
        => excerpt = SubSeq(full_text, 1, max_length)

\* C3 amended: with no question token in a document longer than the budget,
\* the result is the first max_length characters of the document with the
\* whitespace at both ends removed.
C3_FallbackIsStrippedPrefix ==
    (Returned /\ Len(full_text) > max_length /\ NoTokenOccurs(question, full_text))
        => /\ pc = "returned_prefix"
           /\ excerpt = Strip(SubSeq(full_text, 1, max_length))

\* a fallback whose prefix starts with whitespace, so that the result is
\* shorter than the budget and is no prefix of the document
C3_Witness ==
    /\ pc = "returned_prefix"
    /\ NoTokenOccurs(question, full_text)
    /\ max_length > 2
    /\ IsSpace(full_text[1])
    /\ Len(excerpt) < max_length
    /\ excerpt /= SubSeq(full_text, 1, Len(excerpt))
    /\ excerpt = Strip(SubSeq(full_text, 1, max_length))

InScenario == question = Scenario.q /\ full_text = Scenario.d

\* C5 as stated: in the holidays scenario with budget 200 the second sentence
\* scores strictly highest and the excerpt is that sentence followed by ".".
C5_ScenarioSelectsSecondSentence ==
    (Returned /\ InScenario /\ max_length = Scenario.budget)
        => /\ excerpt = ScenarioClaimedExcerpt
           /\ \A s \in 1..Len(SplitSentences(full_text, 1)) :
                  Strip(SplitSentences(full_text, 1)[s]) /= ScenarioSentenceTwo
                      => SentenceScore(SplitSentences(full_text, 1)[s],
                                       QuestionWords(question))
                           < SentenceScore(ScenarioSentenceTwo,
                                           QuestionWords(question))

\* C5 amended: in the holidays scenario with budget 200 the document (99
\* characters) is returned unchanged; and whenever the budget is below the
\* document's length, so that sentences are scored, the first and the second
\* sentence both score 1 and head the sorted list in document order.
C5_ScenarioReturnsDocument ==
    (Returned /\ InScenario)
        => /\ max_length = Scenario.budget =>
                  pc = "returned_whole" /\ excerpt = ScenarioDocument
           /\ max_length < Len(full_text) =>
                  /\ Len(scored_sentences) = 4
                  /\ scored_sentences[1] =
                         [score |-> 1, sentence |-> ScenarioSentenceOne]
                  /\ scored_sentences[2] =
                         [score |-> 1, sentence |-> ScenarioSentenceTwo]
                  /\ scored_sentences[3].score = 0
                  /\ scored_sentences[4].score = 0

\* the scenario's call with budget 200 has returned the whole document
C5_Witness ==
    /\ pc = "returned_whole"
    /\ InScenario
    /\ max_length = Scenario.budget
    /\ Len(full_text) = 99
    /\ excerpt = ScenarioDocument

\* the context built from the first n scored sentences: each one of positive
\* score, whole, followed by ". "
RECURSIVE PrefixContext(_, _)
PrefixContext(scored, n) ==
    IF n = 0 THEN <<>>
    ELSE PrefixContext(scored, n - 1)
             \o (IF scored[n].score > 0
                 THEN scored[n].sentence \o <<".", " ">>
                 ELSE <<>>)

\* appending the k-th scored sentence would exceed the budget
Overflows(scored, k, budget) ==
    Len(PrefixContext(scored, k - 1)) + Len(scored[k].sentence) > budget

\* the first sentence, in sorted order, that overflows (Len + 1: none does)
FirstOverflow(scored, budget) ==
    IF \E k \in 1..Len(scored) : Overflows(scored, k, budget)
    THEN CHOOSE k \in 1..Len(scored) :
             /\ Overflows(scored, k, budget)
             /\ \A h \in 1..(k-1) : ~Overflows(scored, h, budget)
    ELSE Len(scored) + 1

\* C9: assembly halts at the first overflow: the context holds exactly the
\* whole sentences of positive score that precede the first overflowing
\* sentence in sorted order, nothing of that sentence and nothing after it.
C9_HaltsAtFirstOverflow ==
    pc \in {"returned_prefix", "returned_context"} =>
        context = PrefixContext(scored_sentences,
                                FirstOverflow(scored_sentences, max_length) - 1)

\* a sentence was appended, the next overflowed, and a later sentence of
\* positive score that would still have fit was left out
C9_Witness ==
    /\ pc = "returned_context"
    /\ LET f == FirstOverflow(scored_sentences, max_length)
       IN  /\ 1 < f /\ f < Len(scored_sentences)
           /\ context = PrefixContext(scored_sentences, f - 1)
           /\ excerpt = Strip(context)
           /\ \E k \in (f+1)..Len(scored_sentences) :
                  /\ scored_sentences[k].score > 0
                  /\ Len(context) + Len(scored_sentences[k].sentence) <= max_length

\* Score as the claim defines it, on a trimmed sentence: the sum over the
\* question's tokens longer than 2 of the token's occurrences (counted as
\* str.count counts them) in the lower-cased sentence
RECURSIVE ClaimScore(_, _, _)
ClaimScore(q, sentence, w) ==
    IF w > Len(SplitWords(Lower(q), 1)) THEN 0
    ELSE LET token == SplitWords(Lower(q), 1)[w]
         IN  (IF Len(token) > 2 THEN Count(Lower(sentence), token) ELSE 0)
                 + ClaimScore(q, sentence, w + 1)

\* the scored sentences whose Score, as the claim defines it, is positive
RECURSIVE PositiveOnly(_, _, _)
PositiveOnly(q, scored, k) ==
    IF k > Len(scored) THEN <<>>
    ELSE (IF ClaimScore(q, scored[k].sentence, 1) > 0
          THEN <<scored[k]>> ELSE <<>>)
         \o PositiveOnly(q, scored, k + 1)

\* C10: a result that is not the fallback prefix is the trimmed concatenation,
\* each followed by ". ", of trimmed sentences of the document of at least 10
\* characters and positive Score, in non-increasing Score order.
C10_ExcerptOfPositiveSentences ==
    pc = "returned_context" =>
        LET inc == PositiveOnly(question, scored_sentences, 1)
        IN  /\ \E n \in 1..Len(inc) :
                   excerpt = Strip(PrefixContext(inc, n))
            /\ \A i \in 1..Len(scored_sentences) :
                   /\ scored_sentences[i].score
                          = ClaimScore(question, scored_sentences[i].sentence, 1)
                   /\ Len(scored_sentences[i].sentence) >= 10
                   /\ \E p \in 1..Len(SplitSentences(full_text, 1)) :
                          scored_sentences[i].sentence
                              = Strip(SplitSentences(full_text, 1)[p])
            /\ \A i \in 1..(Len(inc) - 1) :
                   ClaimScore(question, inc[i].sentence, 1)
                       >= ClaimScore(question, inc[i + 1].sentence, 1)

\* two sentences of different positive score were included, in that order,
\* and a sentence of score 0 was passed over
C10_Witness ==
    /\ pc = "returned_context"
    /\ Len(scored_sentences) >= 3
    /\ scored_sentences[1].score > scored_sentences[2].score
    /\ scored_sentences[2].score > 0
    /\ scored_sentences[3].score = 0
    /\ excerpt = scored_sentences[1].sentence \o <<".", " ">>
                     \o scored_sentences[2].sentence \o <<".">>

----------------------------------------------------------------------------
(* The extractor on its own: one call of extract_text_from_pdf.             *)

MaxPages == 3

\* 'aB'
PCamel ==
    <<"a","B">>
\* ' <newline>'
PBlank ==
    <<" ","\n">>
\* '1a .'
PDigit ==
    <<"1","a"," ",".">>
\* 'x  y'
PWords ==
    <<"x"," "," ","y">>

\* what extract_text() can give for one page
PageOutcomes == {Raises, <<>>, PCamel, PBlank, PDigit, PWords}

\* 'a.pdf'
NameA ==
    <<"a",".","p","d","f">>
\* 'b.pdf'
NameB ==
    <<"b",".","p","d","f">>
\* 'c.pdf'
NameC ==
    <<"c",".","p","d","f">>

ExtractFiles ==
    {[name |-> NameA, readable |-> r, pages |-> p] :
        r \in BOOLEAN, p \in Strings(PageOutcomes, MaxPages)}

\* One call of extract_text_from_pdf(pdf).  pc is where the call is:
\*   "open"        line 49, the call begins
\*   "warning"     st.warning of line 69 is reached for page page_num
\*   "error"       st.error of line 80 is reached
\*   "extracted"   final_text was returned by line 77
\*   "unreadable"  None was returned by line 81
\*   "ended"       the run was ended at an st.* call, the call does not return
InitExtract ==
    /\ pc = "open"
    /\ pdf \in ExtractFiles
    /\ tmp_file = FALSE /\ page_num = 0
    /\ acc_text = <<>> /\ warnings = <<>> /\ final_text = None
    /\ CleanIdle /\ SelectIdle /\ SessionIdle

\* lines 61-77 from page k with document_text = acc: the loop goes on to the
\* next page that raises and reaches the st.warning of line 69 for it, or to
\* its end, where the temporary file is removed (73) and the cleaned text is
\* returned (76-77).  first is the first page that can be the next to raise.
PageLoop(k, first, acc) ==
    LET n    == FirstAt(pdf.pages, first, {Raises})
        doc  == ExtractPages(SubSeq(pdf.pages, 1, n - 1), k, acc)
    IN  /\ acc_text' = doc
        /\ IF n <= Len(pdf.pages)
           THEN /\ pc' = "warning" /\ page_num' = n
                /\ tmp_file' = TRUE
                /\ UNCHANGED final_text
           ELSE /\ pc' = "extracted" /\ page_num' = Len(pdf.pages)
                /\ tmp_file' = FALSE
                /\ final_text' = clean_text(doc)

\* lines 51-59, then the loop from the first page; a file that PdfReader
\* cannot read goes to the except of line 79 with its temporary file left
Extract ==
    /\ pc = "open"
    /\ IF pdf.readable
       THEN PageLoop(1, 1, <<>>)
       ELSE /\ pc' = "error" /\ tmp_file' = TRUE
            /\ UNCHANGED <<page_num, acc_text, final_text>>
    /\ UNCHANGED <<pdf, warnings, cleanVars, selectVars, sessionVars>>

\* lines 69-70: the warning for page page_num is issued and the loop goes
\* on with the pages after it
ExtractContinue ==
    /\ pc = "warning"
    /\ warnings' = Append(warnings, page_num)
    /\ PageLoop(page_num, page_num + 1, acc_text)
    /\ UNCHANGED <<pdf, cleanVars, selectVars, sessionVars>>

\* lines 80-81: the error is reported and None returned
ExtractError ==
    /\ pc = "error"
    /\ pc' = "unreadable" /\ final_text' = None
    /\ UNCHANGED <<pdf, tmp_file, page_num, acc_text, warnings,
                   cleanVars, selectVars, sessionVars>>

\* a rerun was asked for while the call ran: the script runner ends the run
\* at the st.warning or st.error the call has reached, before that message is
\* issued; the call never returns and the temporary file stays
ExtractEnded ==
    /\ pc \in {"warning", "error"}
    /\ pc' = "ended"
    /\ UNCHANGED <<extractVars, cleanVars, selectVars, sessionVars>>

NextExtract == Extract \/ ExtractContinue \/ ExtractError \/ ExtractEnded

SpecExtract == InitExtract /\ [][NextExtract]_vars

\* the cleaned texts of the pages that extracted and are not blank, in order
RECURSIVE CleanedPages(_, _)
CleanedPages(pages, k) ==
    IF k > Len(pages) THEN <<>>
    ELSE (IF pages[k] /= Raises /\ clean_text(pages[k]) /= <<>>
          THEN <<clean_text(pages[k])>> ELSE <<>>)
         \o CleanedPages(pages, k + 1)

\* C8: a page that fails is skipped and the others are still extracted.  A
\* call that returns from a file PdfReader could read returns text, not None:
\* the cleaned texts of the pages that extracted, in page order, separated
\* by single spaces, with a warning for each page that raised.  At a page
\* that raises the text of the pages before it is kept, and a page that
\* raises never takes the call to the except of line 79.
C8_PageFailureSkipped ==
    /\ pc = "extracted" =>
           /\ final_text /= None
           /\ final_text = JoinSpace(CleanedPages(pdf.pages, 1))
           /\ warnings = WarnedPages(pdf.pages)
    /\ pc = "warning" =>
           /\ pdf.pages[page_num] = Raises
           /\ clean_text(acc_text)
                  = JoinSpace(CleanedPages(SubSeq(pdf.pages, 1, page_num - 1), 1))
    /\ pdf.readable => pc \notin {"error", "unreadable"}

\* a failing page between two pages that extract, and the call has returned
C8_Witness ==
    /\ pc = "extracted"
    /\ pdf.pages = <<PCamel, Raises, PDigit>>
    /\ warnings = <<2>>
    /\ tmp_file = FALSE
    /\ final_text = <<"a", " ", "B", " ", "1", " ", "a", " ", ".">>

----------------------------------------------------------------------------
(* The session: every user interaction reruns main() against                *)
(* st.session_state.                                                         *)

FillerLen == 1480

\* 'the cat sat on a mat. '
LongHead ==
    <<"t","h","e"," ","c","a","t"," ","s","a","t"," ","o","n"," ","a"," ",
      "m","a","t","."," ">>
\* '. a dog barks at the cat.'
LongTail ==
    <<"."," ","a"," ","d","o","g"," ","b","a","r","k","s"," ","a","t"," ",
      "t","h","e"," ","c","a","t",".">>
\* 'the cat sat. my cat ran.'
ShortPageText ==
    <<"t","h","e"," ","c","a","t"," ","s","a","t","."," ","m","y"," ","c",
      "a","t"," ","r","a","n",".">>

\* a page longer than get_answer's context length and shorter than the default
LongPage == LongHead \o [i \in 1..FillerLen |-> "z"] \o LongTail

SessionFiles ==
    {[name |-> NameA, readable |-> TRUE, pages |-> <<LongPage>>],
     [name |-> NameA, readable |-> TRUE, pages |-> <<ShortPageText>>],
     [name |-> NameB, readable |-> TRUE, pages |-> <<Raises, PCamel>>],
     [name |-> NameB, readable |-> TRUE, pages |-> <<PBlank>>],
     [name |-> NameC, readable |-> FALSE, pages |-> <<>>]}

SessionQuestions == {QCat, QTheCatDog, QIsIt, <<>>, <<" ">>}

\* what the pipeline may do when called: raise, find no answer, or answer
\* with a score (in thousandths)
QaOutcomes ==
    {[ok |-> FALSE, answer |-> <<>>, score |-> 0],
     [ok |-> TRUE, answer |-> <<>>, score |-> 0]}
    \cup {[ok |-> TRUE, answer |-> QCat, score |-> s] : s \in {399, 400, 700}}

\* lines 158-164: the session state of a new session, no run of main() going
\* on.  pc is the st.* call a run of main() has reached:
\*   "page"     no run is going on, the page is complete
\*   "start"    a run is asked for or at its first calls (lines 155-169)
\*   "extract"  st.spinner of line 178, the new file name already stored
\*   "warning"  st.warning of line 69 or st.error of line 80
\*   "loaded"   line 181, after the sidebar's if
\*   "answer"   st.spinner of line 228
\*   "show"     st.expander of line 250, the answer displayed
Init ==
    /\ pc = "page"
    /\ uploaded_file = NoFile /\ asked = <<>> /\ clicked = FALSE
    /\ filename = None /\ document_text = None /\ qa_model = None
    /\ model_works \in BOOLEAN
    /\ model_context = None /\ shown_context = None /\ shown_answer = "welcome"
    /\ CleanIdle /\ SelectIdle /\ ExtractIdle

\* A user interaction sends the widgets' values and asks for a run of main().
\* A run that is going on ends at the st.* call it has reached (the script
\* runner raises its rerun exception there, which no except Exception of
\* app.py catches); st.session_state keeps what that run wrote, and the new
\* run starts from line 155 with the new values.
Rerun(file, q, click) ==
    /\ pc' = "start"
    /\ uploaded_file' = file /\ asked' = q /\ clicked' = click
    /\ model_context' = None /\ shown_context' = None
    /\ shown_answer' = "running"
    /\ UNCHANGED <<filename, document_text, qa_model, model_works,
                   cleanVars, selectVars, extractVars>>

\* the button's value in a run asked for by another widget: FALSE, or still
\* TRUE when the click's own run had not begun (the two requests are merged)
ButtonKept == {FALSE} \cup (IF pc = "start" /\ clicked THEN {TRUE} ELSE {})

\* the question input and the button are on the page (lines 191-226)
QuestionShown == Truthy(document_text) /\ qa_model /= None

\* the user puts a file into the uploader
UploadFile ==
    \E f \in SessionFiles : \E click \in ButtonKept : Rerun(f, asked, click)

\* the user removes the file from the uploader
RemoveFile ==
    /\ uploaded_file /= NoFile
    /\ \E click \in ButtonKept : Rerun(NoFile, asked, click)

\* the user edits the question or picks an example
EditQuestion ==
    /\ QuestionShown
    /\ \E q \in SessionQuestions \ {asked} :
           \E click \in ButtonKept : Rerun(uploaded_file, q, click)

\* the user clicks "Get Answer"
ClickGetAnswer ==
    /\ QuestionShown
    /\ Rerun(uploaded_file, asked, TRUE)

\* the user edits the text of "Context used for answer:", the st.text_area
\* of line 252, which is an input widget of the page while it is displayed
EditContext ==
    /\ shown_context /= None
    /\ \E click \in ButtonKept : Rerun(uploaded_file, asked, click)

\* the user asks for a rerun of the script with the widgets as they are
RerunScript ==
    \E click \in ButtonKept : Rerun(uploaded_file, asked, click)

\* lines 175-176: the sidebar extracts only a file whose name is not the
\* stored one
NeedsExtraction(file) == file /= NoFile /\ filename /= file.name

\* extract_text_from_pdf makes a st.* call before it returns: st.warning for a
\* page that raises (line 69), st.error for a file that cannot be read (80)
ExtractionWarns(file) == ~file.readable \/ WarnedPages(file.pages) /= <<>>

\* the run is over: the page is complete and the button's click is used up
RunEnds == pc' = "page" /\ clicked' = FALSE

\* lines 155-177: up to st.spinner of line 178, the file's name stored by line
\* 177, or up to line 181 when nothing is to be extracted
Sidebar ==
    /\ pc = "start"
    /\ IF NeedsExtraction(uploaded_file)
       THEN filename' = uploaded_file.name /\ pc' = "extract"
       ELSE UNCHANGED filename /\ pc' = "loaded"
    /\ UNCHANGED <<uploaded_file, document_text, qa_model, model_works, asked,
                   clicked, model_context, shown_context, shown_answer,
                   cleanVars, selectVars, extractVars>>

\* lines 178-179: into extract_text_from_pdf, up to its first st.* call, or
\* when it makes none up to the assignment of line 179
Extraction ==
    /\ pc = "extract"
    /\ IF ExtractionWarns(uploaded_file)
       THEN pc' = "warning" /\ UNCHANGED document_text
       ELSE /\ pc' = "loaded"
            /\ document_text' = extract_text_from_pdf(uploaded_file)
    /\ UNCHANGED <<uploaded_file, filename, qa_model, model_works, asked,
                   clicked, model_context, shown_context, shown_answer,
                   cleanVars, selectVars, extractVars>>

\* from the st.warning or st.error inside extract_text_from_pdf to the
\* assignment of line 179
ExtractionReturns ==
    /\ pc = "warning"
    /\ pc' = "loaded"
    /\ document_text' = extract_text_from_pdf(uploaded_file)
    /\ UNCHANGED <<uploaded_file, filename, qa_model, model_works, asked,
                   clicked, model_context, shown_context, shown_answer,
                   cleanVars, selectVars, extractVars>>

\* lines 181-227: the welcome screen without a document (lines 281-304); else
\* the model is loaded if the session has none (198-204), the question is
\* read (216-224) and the button tested (226-227).  A run that does not
\* reach the question input leaves it empty for the next one.
Content ==
    /\ pc = "loaded"
    /\ LET loaded == IF qa_model = None THEN load_qa_model(model_works)
                                        ELSE qa_model
       IN  IF ~Truthy(document_text)
           THEN /\ shown_answer' = "welcome" /\ asked' = <<>> /\ RunEnds
                /\ UNCHANGED qa_model
           ELSE /\ qa_model' = loaded
                /\ IF loaded = None
                   THEN shown_answer' = "model_error" /\ asked' = <<>> /\ RunEnds
                   ELSE IF ~clicked
                   THEN shown_answer' = "blank" /\ UNCHANGED asked /\ RunEnds
                   ELSE IF ~Truthy(Strip(asked))
                   THEN /\ shown_answer' = "enter_question"
                        /\ UNCHANGED asked /\ RunEnds
                   ELSE /\ pc' = "answer"
                        /\ UNCHANGED <<asked, clicked, shown_answer>>
    /\ UNCHANGED <<uploaded_file, filename, document_text, model_works,
                   model_context, shown_context,
                   cleanVars, selectVars, extractVars>>

\* lines 228-247 and 254-256: get_answer, then the answer and its confidence,
\* or the message that none was found
Answer ==
    /\ pc = "answer"
    /\ LET got == get_answer(asked, document_text, qa_model, QaOutcomes)
       IN  /\ model_context' = got.passed
           /\ \E result \in got.results :
                  IF result.ok /\ Truthy(result.answer)
                  THEN /\ shown_answer' = ConfidenceTier(result.score)
                       /\ pc' = "show" /\ UNCHANGED clicked
                  ELSE shown_answer' = "not_found" /\ RunEnds
    /\ UNCHANGED <<uploaded_file, filename, document_text, qa_model,
                   model_works, asked, shown_context,
                   cleanVars, selectVars, extractVars>>

\* lines 250-252: the "Context used for answer:" text, then the rest of the
\* page
ShowContext ==
    /\ pc = "show"
    /\ shown_context' = DisplayedContext(asked, document_text)
    /\ RunEnds
    /\ UNCHANGED <<uploaded_file, filename, document_text, qa_model,
                   model_works, asked, model_context, shown_answer,
                   cleanVars, selectVars, extractVars>>

\* a run of main() goes on to the next st.* call at which it can be ended
main ==
    Sidebar \/ Extraction \/ ExtractionReturns \/ Content \/ Answer
        \/ ShowContext

Next ==
    UploadFile \/ RemoveFile \/ EditQuestion \/ ClickGetAnswer
        \/ EditContext \/ RerunScript \/ main

Spec == Init /\ [][Next]_vars

\* C6: once the page is complete, the session's document is the extraction
\* result of the file most recently put into the uploader.
C6_DocumentIsLatestUpload ==
    pc = "page" /\ uploaded_file /= NoFile =>
        document_text = extract_text_from_pdf(uploaded_file)

\* C7: the context shown as "Context used for answer:" is the context that
\* get_answer handed to the pipeline for the same question and document.
C7_ShownContextIsModelContext ==
    shown_context /= None => shown_context = model_context

=============================================================================
